---- MODULE Spec2Model ----
(***************************************************************************)
(* Model of src/src/cst.c, the "Big Time" Pebble watch face: the           *)
(* digit-image slot cache (image_slot_state / images), the two-digit row   *)
(* renderer (display_value), the display-hour policy (get_display_hour)    *)
(* and the entry points that drive them (app_init, handle_minute_tick,     *)
(* the ZERO_PREFIX settings callback, app_destroy), and the power and       *)
(* bluetooth indicators (handle_power_level, handle_connection) with the   *)
(* boolean settings and their persistence.                                 *)
(*                                                                         *)
(* Every entry point runs to completion on the single event-loop thread,   *)
(* so each one is a single action.  The sequential body of a handler is    *)
(* written as a composition of operators over a record m, the process      *)
(* memory the handler works on:                                            *)
(*   m.state   image_slot_state[]                                          *)
(*   m.images  images[]  (a handle, or NULL)                               *)
(*   m.heap    the GBitmap handles currently alive in the asset store      *)
(*   m.calls   the asset-store calls made so far by the running handler    *)
(*   m.fault   TRUE once the process has taken a fault                     *)
(*   m.dfree   TRUE once gbitmap_destroy was given a dead non-NULL handle  *)
(*   m.loads   the (slot_number, digit_value) pairs the running handler    *)
(*             has passed to load_digit_image_into_slot                    *)
(*   m.unloads the slot_number values it has passed to                     *)
(*             unload_digit_image_from_slot                                *)
(* The indicator handlers are written the same way over a record g of the  *)
(* indicator statics (show_power, prev_power, power_image, show_bluetooth, *)
(* prev_bluetooth, bluetooth_image), the indicator bitmaps alive (g.heap)  *)
(* and the asset-store calls made (g.calls).  The bitmap layers are not    *)
(* modelled: a layer is created and attached where its bitmap is created   *)
(* and removed and destroyed where its bitmap is destroyed.                *)
(***************************************************************************)
EXTENDS Integers, Sequences, FiniteSets, TLC

\* ---------------------------------------------------------------- constants

\* #define TOTAL_IMAGE_SLOTS 4
TOTAL_IMAGE_SLOTS == 4
\* #define NUMBER_OF_IMAGES 10
NUMBER_OF_IMAGES == 10
\* #define EMPTY_SLOT -1
EMPTY_SLOT == -1
\* enum SettingsKeys { ZERO_PREFIX = 0x00, SHOW_POWER = 0x01,
\*                    SHOW_BTOOTH = 0x02, MONTH_FIRST = 0x03, ... }
ZERO_PREFIX == 0
SHOW_POWER == 1
SHOW_BTOOTH == 2
MONTH_FIRST == 3
\* GBitmap *images[] holds NULL until the first load (static storage)
NULL == 0

Slots == 0 .. (TOTAL_IMAGE_SLOTS - 1)
Digits == 0 .. (NUMBER_OF_IMAGES - 1)

\* ------------------------------------------------------------------- bounds

\* Size of the pool of GBitmap handles the asset store hands out.
NumHandles == 5
\* Acquisitions that may fail in one run of the model.
MaxFailures == 1
\* tm_min values offered to the entry points: 0, 59, 58, ...
MaxMinuteSamples == 2
\* tm_hour values offered to the entry points: 0, 7, 14, 21, 4, 11, ...
MaxHourSamples == 5
\* Shorter lists of the same, for the specifications that multiply the
\* inputs by something else (failed acquisitions, the whole day).
MaxFewMinuteSamples == 1
MaxFewHourSamples == 2
\* In-range digit_value arguments offered to a direct call of the cache's
\* load operation: 0, 9, 8, ...
MaxCacheDigitSamples == 1
\* Size of the pool of GBitmap handles for the indicator bitmaps.
NumIconHandles == 3
\* charge_percent values offered as battery readings: 100, 50, 0, ...
MaxChargeSamples == 1

Handles == 1 .. NumHandles
\* tm_hour of struct tm
Hours == 0 .. 23
\* tm_min of struct tm
Minutes == 0 .. 59
FewHours == {(k * 7) % 24 : k \in 0 .. MaxFewHourSamples}
FewMinutes == {(k * 59) % 60 : k \in 0 .. MaxFewMinuteSamples}
SampleHours == {(k * 7) % 24 : k \in 0 .. MaxHourSamples}
SampleMinutes == {(k * 59) % 60 : k \in 0 .. MaxMinuteSamples}
\* int slot_number of a direct call: every slot, and one index off each end
CacheSlots == -1 .. TOTAL_IMAGE_SLOTS
\* int digit_value of a direct call: sampled digits, and one value off each end
CacheDigits ==
  {-1, NUMBER_OF_IMAGES} \cup {(k * 9) % 10 : k \in 0 .. MaxCacheDigitSamples}

IconHandles == (NumHandles + 1) .. (NumHandles + NumIconHandles)
\* BatteryChargeState readings: on the charger, or discharging at a sampled
\* charge_percent
ChargeStates ==
  {[is_charging |-> TRUE, charge_percent |-> 100]} \cup
  {[is_charging |-> FALSE, charge_percent |-> 100 - ((k * 50) % 110)] :
     k \in 0 .. MaxChargeSamples}
\* The battery and connection readings at the launches of the specifications
\* that explore the digits only.
LaunchCharge == [is_charging |-> FALSE, charge_percent |-> 100]
LaunchConnected == TRUE

\* What one gbitmap_create_with_resource call does: it returns a bitmap, or
\* it returns NULL and the caller's unchecked images[slot]->bounds.size is a
\* NULL dereference, which either faults the process or reads garbage and
\* carries on.
Outcomes == {"ok", "null_fault", "null_garbage"}

\* ----------------------------------------------------------------- variables

VARIABLES
  image_slot_state,  \* int image_slot_state[TOTAL_IMAGE_SLOTS]
  images,            \* GBitmap *images[TOTAL_IMAGE_SLOTS]
  heap,              \* handles alive in the asset store
  zero_prefix,       \* static volatile bool zero_prefix
  persist,           \* persistent storage: key -> "absent" or a bool
  phase,             \* "off", "running", "exited", "faulted"
  last,              \* the most recent entry point and its inputs
  calls,             \* asset-store calls made by the most recent entry point
  nfail,             \* failed acquisitions so far in this run
  balance,           \* successful acquires minus release calls, this process
  dfree,             \* a dead non-NULL handle was handed to gbitmap_destroy
  passed,            \* arguments the most recent entry point passed to the cache
  show_power,        \* static volatile bool show_power
  show_bluetooth,    \* static volatile bool show_bluetooth
  month_first,       \* static volatile bool month_first
  prev_power,        \* static short prev_power
  power_image,       \* static GBitmap *power_image
  prev_bluetooth,    \* static bool prev_bluetooth
  bluetooth_image,   \* static GBitmap *bluetooth_image
  icon_heap,         \* indicator bitmaps alive: <<"power" or "bluetooth", handle>>
  icon_calls,        \* indicator asset-store calls of the most recent entry point
  synced             \* the value last synced for each settings key synced so far

vars == <<image_slot_state, images, heap, zero_prefix, persist, phase, last,
          calls, nfail, balance, dfree, passed, show_power, show_bluetooth,
          month_first, prev_power, power_image, prev_bluetooth,
          bluetooth_image, icon_heap, icon_calls, synced>>

\* ------------------------------------------------------------- asset store

\* One asset-store call, as recorded in m.calls.
Call(op, slot, handle) == [op |-> op, slot |-> slot, handle |-> handle]

\* gbitmap_create_with_resource: a handle not alive, or NULL when the store
\* refuses.  The pool is larger than TOTAL_IMAGE_SLOTS, so it is the outcome
\* alone that makes the store refuse.
gbitmap_create_with_resource(live, outcome) ==
  IF outcome = "ok" /\ Handles \ live # {}
    THEN CHOOSE h \in Handles \ live : \A g \in Handles \ live : h <= g
    ELSE NULL

\* ---------------------------------------------------------------- slot cache

\* static void load_digit_image_into_slot (int slot_number,int digit_value)
load_digit_image_into_slot(m, slot_number, digit_value, outcome) ==
  IF m.fault THEN m
  ELSE LET n == [m EXCEPT !.loads = @ \cup {<<slot_number, digit_value>>}]
       IN IF /\ (slot_number >= 0) /\ (slot_number < TOTAL_IMAGE_SLOTS)
             /\ (digit_value >= 0) /\ (digit_value <= 9)
             /\ n.state[slot_number] = EMPTY_SLOT
            THEN LET h == gbitmap_create_with_resource(n.heap, outcome)
                 IN IF h # NULL
                      THEN [n EXCEPT !.images[slot_number] = h,
                                     !.heap = @ \cup {h},
                                     !.calls = Append(@, Call("acquire", slot_number, h)),
                                     !.state[slot_number] = digit_value]
                    \* images[slot_number] is NULL and ->bounds.size
                    \* dereferences it
                    ELSE IF outcome = "null_garbage"
                      THEN [n EXCEPT !.images[slot_number] = NULL,
                                     !.calls = Append(@, Call("acquire_failed", slot_number, NULL)),
                                     !.state[slot_number] = digit_value]
                      ELSE [n EXCEPT !.images[slot_number] = NULL,
                                     !.calls = Append(@, Call("acquire_failed", slot_number, NULL)),
                                     !.fault = TRUE]
            ELSE n

\* unload_digit_image_from_slot without its gbitmap_destroy
unload_digit_image_from_slot_leaks(m, slot_number) ==
  IF m.fault THEN m
  ELSE IF m.state[slot_number] # EMPTY_SLOT
    THEN [m EXCEPT !.state[slot_number] = EMPTY_SLOT]
    ELSE m

\* unload_digit_image_from_slot without its test for an empty slot
unload_digit_image_from_slot_unguarded(m, slot_number) ==
  IF m.fault THEN m
  ELSE LET h == m.images[slot_number]
       IN [m EXCEPT !.heap = @ \ {h},
                    !.calls = Append(@, Call("release", slot_number, h)),
                    !.dfree = @ \/ (h # NULL /\ h \notin m.heap),
                    !.state[slot_number] = EMPTY_SLOT]

\* static void unload_digit_image_from_slot (int slot_number)
unload_digit_image_from_slot(m, slot_number) ==
  IF m.fault THEN m
  ELSE LET n == [m EXCEPT !.unloads = @ \cup {slot_number}]
       IN IF n.state[slot_number] # EMPTY_SLOT
            THEN LET h == n.images[slot_number]
                 IN [n EXCEPT !.heap = @ \ {h},
                              !.calls = Append(@, Call("release", slot_number, h)),
                              !.dfree = @ \/ (h # NULL /\ h \notin n.heap),
                              !.state[slot_number] = EMPTY_SLOT]
            ELSE n

\* ------------------------------------------------------------- row renderer

\* display_column clearing the slot only when it then loads a digit
display_column_clears_when_loading(m, value, row_number, col_number, changed, zp, outc) ==
  LET slot_number == (row_number * 2) + col_number
      digit == value % 10
  IN IF m.fault THEN m
     ELSE IF changed \/ (digit # m.state[slot_number])
       THEN IF zp \/ (digit # 0) \/ (slot_number # 0)
              THEN load_digit_image_into_slot(
                     unload_digit_image_from_slot(m, slot_number),
                     slot_number, digit, outc[slot_number])
              ELSE m
       ELSE m

\* display_column blanking the leading zero whatever zero_prefix is
display_column_ignores_zero_prefix(m, value, row_number, col_number, changed, zp, outc) ==
  LET slot_number == (row_number * 2) + col_number
      digit == value % 10
  IN IF m.fault THEN m
     ELSE IF changed \/ (digit # m.state[slot_number])
       THEN LET u == unload_digit_image_from_slot(m, slot_number)
            IN IF (digit # 0) \/ (slot_number # 0)
                 THEN load_digit_image_into_slot(u, slot_number, digit,
                                                 outc[slot_number])
                 ELSE u
       ELSE m

\* display_column without change detection: every column is redrawn
display_column_always_redraws(m, value, row_number, col_number, changed, zp, outc) ==
  LET slot_number == (row_number * 2) + col_number
      digit == value % 10
  IN IF m.fault THEN m
     ELSE LET u == unload_digit_image_from_slot(m, slot_number)
          IN IF zp \/ (digit # 0) \/ (slot_number # 0)
               THEN load_digit_image_into_slot(u, slot_number, digit,
                                               outc[slot_number])
               ELSE u

\* display_column loading without unloading first
display_column_without_unload(m, value, row_number, col_number, changed, zp, outc) ==
  LET slot_number == (row_number * 2) + col_number
      digit == value % 10
  IN IF m.fault THEN m
     ELSE IF changed \/ (digit # m.state[slot_number])
       THEN IF zp \/ (digit # 0) \/ (slot_number # 0)
              THEN load_digit_image_into_slot(m, slot_number, digit,
                                              outc[slot_number])
              ELSE m
       ELSE m

\* display_column placing row r at slots r and r + 1
display_column_rows_overlap(m, value, row_number, col_number, changed, zp, outc) ==
  LET slot_number == row_number + col_number
      digit == value % 10
  IN IF m.fault THEN m
     ELSE IF changed \/ (digit # m.state[slot_number])
       THEN LET u == unload_digit_image_from_slot(m, slot_number)
            IN IF zp \/ (digit # 0) \/ (slot_number # 0)
                 THEN load_digit_image_into_slot(u, slot_number, digit,
                                                 outc[slot_number])
                 ELSE u
       ELSE m

\* display_column taking the whole value for the column's digit
display_column_whole_value(m, value, row_number, col_number, changed, zp, outc) ==
  LET slot_number == (row_number * 2) + col_number
      digit == value
  IN IF m.fault THEN m
     ELSE IF changed \/ (digit # m.state[slot_number])
       THEN LET u == unload_digit_image_from_slot(m, slot_number)
            IN IF zp \/ (digit # 0) \/ (slot_number # 0)
                 THEN load_digit_image_into_slot(u, slot_number, digit,
                                                 outc[slot_number])
                 ELSE u
       ELSE m

\* One pass of display_value's for loop, for column col_number, with value
\* already divided down to this column.
display_column(m, value, row_number, col_number, changed, zp, outc) ==
  LET slot_number == (row_number * 2) + col_number
      digit == value % 10
  IN IF m.fault THEN m
     ELSE IF changed \/ (digit # m.state[slot_number])
       THEN LET u == unload_digit_image_from_slot(m, slot_number)
            IN IF zp \/ (digit # 0) \/ (slot_number # 0)
                 THEN load_digit_image_into_slot(u, slot_number, digit,
                                                 outc[slot_number])
                 ELSE u
       ELSE m

\* display_value without its value /= 10 between the columns
display_value_without_division(m, value, row_number, changed, zp, outc) ==
  LET v == value % 100
      m1 == display_column(m, v, row_number, 1, changed, zp, outc)
  IN display_column(m1, v, row_number, 0, changed, zp, outc)

\* static void display_value (unsigned short value,unsigned short row_number,
\*                            bool changed), with zero_prefix passed as zp
display_value(m, value, row_number, changed, zp, outc) ==
  LET v == value % 100
      m1 == display_column(m, v, row_number, 1, changed, zp, outc)
  IN display_column(m1, v \div 10, row_number, 0, changed, zp, outc)

\* get_display_hour without the conversion of 0 to 12
get_display_hour_without_twelve(hour, is_24h) ==
  IF is_24h THEN hour ELSE hour % 12

\* static unsigned short get_display_hour (unsigned short hour), with
\* clock_is_24h_style() passed as is_24h
get_display_hour(hour, is_24h) ==
  IF is_24h THEN hour
  ELSE LET display_hour == hour % 12
       IN IF display_hour # 0 THEN display_hour ELSE 12

\* display_time rendering the hour row only on the hour or when forced
display_time_hour_on_the_hour(m, tm_hour, tm_min, is_24h, changed, zp, outc) ==
  LET m0 == IF changed \/ tm_min = 0
              THEN display_value(m, get_display_hour(tm_hour, is_24h), 0,
                                 changed, zp, outc)
              ELSE m
  IN display_value(m0, tm_min, 1, changed, zp, outc)

\* static void display_time (struct tm *tick_time,bool changed)
display_time(m, tm_hour, tm_min, is_24h, changed, zp, outc) ==
  LET m0 == display_value(m, get_display_hour(tm_hour, is_24h), 0, changed, zp, outc)
  IN display_value(m0, tm_min, 1, changed, zp, outc)

\* --------------------------------------------------------------- indicators

\* One asset-store call on an indicator bitmap, as recorded in g.calls.
IconCall(op, icon, handle) == [op |-> op, icon |-> icon, handle |-> handle]

\* gbitmap_create_with_resource for an indicator bitmap: a handle not alive.
\* An entry point runs only where the pool holds a handle for it (PoolAllows).
gbitmap_create_icon(live) ==
  LET free == IconHandles \ {p[2] : p \in live}
  IN IF free # {} THEN CHOOSE h \in free : \A k \in free : h <= k
     ELSE NULL

\* C's integer division, which truncates toward zero.
CDiv(a, b) == IF a >= 0 THEN a \div b ELSE -((-a) \div b)

\* static void handle_power_level (BatteryChargeState charge_state)
handle_power_level(g, charge_state) ==
  IF g.show_power
    THEN LET power_level == IF charge_state.is_charging THEN 5
                            ELSE CDiv(charge_state.charge_percent - 1, 20)
         IN IF power_level # g.prev_power
              THEN LET h == gbitmap_create_icon(g.heap)
                   IN [g EXCEPT !.power_image = h,
                                !.heap = @ \cup {<<"power", h>>},
                                !.calls = Append(@, IconCall("acquire", "power", h)),
                                !.prev_power = power_level]
              ELSE g
    ELSE IF g.power_image # NULL
           THEN [g EXCEPT !.heap = @ \ {<<"power", g.power_image>>},
                          !.calls = Append(@, IconCall("release", "power", g.power_image)),
                          !.power_image = NULL,
                          !.prev_power = -1]
           ELSE g

\* static void hide_bluetooth ()
hide_bluetooth(g) ==
  [g EXCEPT !.heap = @ \ {<<"bluetooth", g.bluetooth_image>>},
            !.calls = Append(@, IconCall("release", "bluetooth", g.bluetooth_image)),
            !.bluetooth_image = NULL]

\* handle_connection leaving prev_bluetooth alone when the setting hides the
\* icon
handle_connection_keeps_prev(g, connected) ==
  IF g.show_bluetooth
    THEN IF connected # g.prev_bluetooth
           THEN LET g1 == IF connected
                            THEN IF g.bluetooth_image = NULL
                                   THEN LET h == gbitmap_create_icon(g.heap)
                                        IN [g EXCEPT !.bluetooth_image = h,
                                                     !.heap = @ \cup {<<"bluetooth", h>>},
                                                     !.calls = Append(@, IconCall("acquire", "bluetooth", h))]
                                   ELSE g
                            ELSE IF g.bluetooth_image # NULL
                                   THEN hide_bluetooth(g)
                                   ELSE g
                IN [g1 EXCEPT !.prev_bluetooth = connected]
           ELSE g
    ELSE IF g.bluetooth_image # NULL
           THEN hide_bluetooth(g)
           ELSE g

\* static void handle_connection (bool connected)
handle_connection(g, connected) ==
  IF g.show_bluetooth
    THEN IF connected # g.prev_bluetooth
           THEN LET g1 == IF connected
                            THEN IF g.bluetooth_image = NULL
                                   THEN LET h == gbitmap_create_icon(g.heap)
                                        IN [g EXCEPT !.bluetooth_image = h,
                                                     !.heap = @ \cup {<<"bluetooth", h>>},
                                                     !.calls = Append(@, IconCall("acquire", "bluetooth", h))]
                                   ELSE g
                            ELSE IF g.bluetooth_image # NULL
                                   THEN hide_bluetooth(g)
                                   ELSE g
                IN [g1 EXCEPT !.prev_bluetooth = connected]
           ELSE g
    ELSE IF g.bluetooth_image # NULL
           THEN [hide_bluetooth(g) EXCEPT !.prev_bluetooth = FALSE]
           ELSE g

\* ----------------------------------------------------------------- settings

\* persist_exists / persist_read_bool / persist_write_bool on the watch's
\* persistent storage, a function from the keys written so far
persist_exists(store, key) == key \in DOMAIN store
persist_read_bool(store, key) == store[key]
persist_write_bool(store, key, value) ==
  [k \in (DOMAIN store) \cup {key} |-> IF k = key THEN value ELSE store[k]]

\* Tuples the phone may sync for a boolean setting.
Tuples ==
  { [type |-> "TUPLE_CSTRING", length |-> 5, value |-> 0],
    [type |-> "TUPLE_CSTRING", length |-> 6, value |-> 0],
    [type |-> "TUPLE_INT", length |-> 4, value |-> 1],
    [type |-> "TUPLE_UINT", length |-> 4, value |-> 0],
    [type |-> "TUPLE_BYTE_ARRAY", length |-> 1, value |-> 1] }

\* static bool get_tuple_bool_value (const Tuple * tuple)
get_tuple_bool_value(tuple) ==
  CASE tuple.type = "TUPLE_CSTRING" -> tuple.length = 5
    [] tuple.type = "TUPLE_INT" -> tuple.value # 0
    [] tuple.type = "TUPLE_UINT" -> tuple.value # 0
    [] OTHER -> FALSE

\* The values get_tuple_bool_value hands to the settings callback.
SyncedValues == {get_tuple_bool_value(t) : t \in Tuples}

\* ------------------------------------------------------------- entry points

\* The process memory a handler starts from.
Memory ==
  [state |-> image_slot_state, images |-> images, heap |-> heap,
   calls |-> <<>>, fault |-> FALSE, dfree |-> dfree,
   loads |-> {}, unloads |-> {}]

\* The memory of a process that has just been started (static initialisers).
FreshMemory ==
  [state |-> [s \in Slots |-> EMPTY_SLOT], images |-> [s \in Slots |-> NULL],
   heap |-> {}, calls |-> <<>>, fault |-> FALSE, dfree |-> FALSE,
   loads |-> {}, unloads |-> {}]

Count(log, op) == Cardinality({i \in DOMAIN log : log[i].op = op})

\* Per-slot outcomes of the acquisitions of one handler, with at most k of
\* them failing.
FailPatterns(k) ==
  {f \in [Slots -> Outcomes] : Cardinality({s \in Slots : f[s] # "ok"}) <= k}

\* The asset store refuses nothing.
NoFailure == [s \in Slots |-> "ok"]

\* The handler has run to memory m, from a balance of start, and leaves the
\* process in phase after unless it faulted: its effects become the new state.
Commit(m, start, after) ==
  /\ image_slot_state' = m.state
  /\ images' = m.images
  /\ heap' = m.heap
  /\ calls' = m.calls
  /\ dfree' = m.dfree
  /\ passed' = [loads |-> m.loads, unloads |-> m.unloads]
  /\ nfail' = nfail + Count(m.calls, "acquire_failed")
  /\ balance' = start + Count(m.calls, "acquire") - Count(m.calls, "release")
  /\ phase' = IF m.fault THEN "faulted" ELSE after

Entry(op, tm_hour, tm_min, is_24h, changed) ==
  [op |-> op, tm_hour |-> tm_hour, tm_min |-> tm_min, is_24h |-> is_24h,
   changed |-> changed]

\* The indicator statics a handler starts from.
IconMemory ==
  [show_power |-> show_power, prev_power |-> prev_power,
   power_image |-> power_image, show_bluetooth |-> show_bluetooth,
   prev_bluetooth |-> prev_bluetooth, bluetooth_image |-> bluetooth_image,
   heap |-> icon_heap, calls |-> <<>>]

\* The indicator statics of a process that has just been started and has
\* read its settings (static initialisers).
FreshIconMemory(sp, sb) ==
  [show_power |-> sp, prev_power |-> -1, power_image |-> NULL,
   show_bluetooth |-> sb, prev_bluetooth |-> FALSE, bluetooth_image |-> NULL,
   heap |-> {}, calls |-> <<>>]

\* The handler has run the indicator statics to g.
CommitIcons(g) ==
  /\ show_power' = g.show_power
  /\ prev_power' = g.prev_power
  /\ power_image' = g.power_image
  /\ show_bluetooth' = g.show_bluetooth
  /\ prev_bluetooth' = g.prev_bluetooth
  /\ bluetooth_image' = g.bluetooth_image
  /\ icon_heap' = g.heap
  /\ icon_calls' = g.calls

\* The handler does not touch the indicators.
IconsIdle ==
  /\ icon_calls' = <<>>
  /\ UNCHANGED <<show_power, prev_power, power_image, show_bluetooth,
                 prev_bluetooth, bluetooth_image, icon_heap, month_first>>

\* The handler does not touch the digits.
DigitsIdle ==
  /\ calls' = <<>>
  /\ passed' = [loads |-> {}, unloads |-> {}]
  /\ UNCHANGED <<image_slot_state, images, heap, nfail, balance, dfree,
                 zero_prefix, phase>>

\* static void app_init (), in a process that has just been started
app_init(tm_hour, tm_min, is_24h, outc, charge_state, connected) ==
  /\ phase # "running"
  /\ LET zp == IF persist_exists(persist, ZERO_PREFIX)
                 THEN persist_read_bool(persist, ZERO_PREFIX) ELSE FALSE
         sp == IF persist_exists(persist, SHOW_POWER)
                 THEN persist_read_bool(persist, SHOW_POWER) ELSE TRUE
         sb == IF persist_exists(persist, SHOW_BTOOTH)
                 THEN persist_read_bool(persist, SHOW_BTOOTH) ELSE TRUE
         mf == IF persist_exists(persist, MONTH_FIRST)
                 THEN persist_read_bool(persist, MONTH_FIRST) ELSE TRUE
         m == display_time(FreshMemory, tm_hour, tm_min, is_24h, TRUE, zp, outc)
         g0 == FreshIconMemory(sp, sb)
         g == IF m.fault THEN g0
              ELSE handle_connection(handle_power_level(g0, charge_state), connected)
     IN /\ zero_prefix' = zp
        /\ month_first' = mf
        /\ Commit(m, 0, "running")
        /\ CommitIcons(g)
  /\ last' = Entry("app_init", tm_hour, tm_min, is_24h, TRUE)
              @@ [charge_state |-> charge_state, connected |-> connected]
  /\ UNCHANGED <<persist, synced>>

\* static void handle_minute_tick (struct tm *tick_time,TimeUnits units_changed)
handle_minute_tick(tm_hour, tm_min, is_24h, outc) ==
  /\ phase = "running"
  /\ LET m == display_time(Memory, tm_hour, tm_min, is_24h, FALSE, zero_prefix, outc)
     IN Commit(m, balance, "running")
  /\ last' = Entry("handle_minute_tick", tm_hour, tm_min, is_24h, FALSE)
  /\ IconsIdle
  /\ UNCHANGED <<zero_prefix, persist, synced>>

\* sync_zero_prefix rendering before it sets the flag
sync_zero_prefix_renders_first(new_value, tm_hour, tm_min, is_24h, outc) ==
  /\ phase = "running"
  /\ LET zp == new_value
         m == display_time(Memory, tm_hour, tm_min, is_24h, TRUE, zero_prefix, outc)
     IN /\ zero_prefix' = zp
        /\ Commit(m, balance, "running")
        /\ persist' = IF m.fault THEN persist
                      ELSE persist_write_bool(persist, ZERO_PREFIX, zp)
        /\ synced' = persist_write_bool(synced, ZERO_PREFIX, new_value)
  /\ last' = Entry("sync_zero_prefix", tm_hour, tm_min, is_24h, TRUE)
  /\ IconsIdle

\* sync_tuple_changed_callback, case ZERO_PREFIX: set the flag, update_time()
\* (a forced display_time of the current time), persist the flag
sync_zero_prefix(new_value, tm_hour, tm_min, is_24h, outc) ==
  /\ phase = "running"
  /\ LET zp == new_value
         m == display_time(Memory, tm_hour, tm_min, is_24h, TRUE, zp, outc)
     IN /\ zero_prefix' = zp
        /\ Commit(m, balance, "running")
        /\ persist' = IF m.fault THEN persist
                      ELSE persist_write_bool(persist, ZERO_PREFIX, zp)
        /\ synced' = persist_write_bool(synced, ZERO_PREFIX, new_value)
  /\ last' = Entry("sync_zero_prefix", tm_hour, tm_min, is_24h, TRUE)
  /\ IconsIdle

\* display_value called on its own, as display_time calls it for one row
display_value_call(value, row_number, changed) ==
  /\ phase = "running"
  /\ LET m == display_value(Memory, value, row_number, changed, zero_prefix, NoFailure)
     IN Commit(m, balance, "running")
  /\ last' = [op |-> "display_value", value |-> value,
              row_number |-> row_number, changed |-> changed]
  /\ IconsIdle
  /\ UNCHANGED <<zero_prefix, persist, synced>>

\* load_digit_image_into_slot called on its own with any arguments.  The
\* function returns void and sets no error state: whatever the arguments, the
\* caller is signalled nothing.
load_digit_image_into_slot_call(slot_number, digit_value) ==
  /\ phase = "running"
  /\ LET m == load_digit_image_into_slot(Memory, slot_number, digit_value, "ok")
     IN Commit(m, balance, "running")
  /\ last' = [op |-> "load_digit_image_into_slot", slot_number |-> slot_number,
              digit_value |-> digit_value, signalled |-> "nothing"]
  /\ IconsIdle
  /\ UNCHANGED <<zero_prefix, persist, synced>>

\* unload_digit_image_from_slot called on its own, as display_value and
\* app_destroy call it
unload_digit_image_from_slot_call(slot_number) ==
  /\ phase = "running"
  /\ LET m == unload_digit_image_from_slot(Memory, slot_number)
     IN Commit(m, balance, "running")
  /\ last' = [op |-> "unload_digit_image_from_slot", slot_number |-> slot_number]
  /\ IconsIdle
  /\ UNCHANGED <<zero_prefix, persist, synced>>

\* The handler that ran the indicator statics to g found a handle in the
\* pool for every bitmap it created.
PoolAllows(g) ==
  \A i \in DOMAIN g.calls : g.calls[i].handle # NULL

\* handle_power_level as the battery state service calls it
handle_power_level_event(charge_state) ==
  /\ phase = "running"
  /\ LET g == handle_power_level(IconMemory, charge_state)
     IN PoolAllows(g) /\ CommitIcons(g)
  /\ last' = [op |-> "handle_power_level", charge_state |-> charge_state]
  /\ DigitsIdle
  /\ UNCHANGED <<month_first, persist, synced>>

\* handle_connection as the bluetooth connection service calls it
handle_connection_event(connected) ==
  /\ phase = "running"
  /\ LET g == handle_connection(IconMemory, connected)
     IN PoolAllows(g) /\ CommitIcons(g)
  /\ last' = [op |-> "handle_connection", connected |-> connected]
  /\ DigitsIdle
  /\ UNCHANGED <<month_first, persist, synced>>

\* sync_tuple_changed_callback, case SHOW_POWER, with the reading of
\* battery_state_service_peek() passed as charge_state
sync_show_power(new_value, charge_state) ==
  /\ phase = "running"
  /\ LET g == handle_power_level([IconMemory EXCEPT !.show_power = new_value],
                                 charge_state)
     IN /\ PoolAllows(g)
        /\ CommitIcons(g)
        /\ persist' = persist_write_bool(persist, SHOW_POWER, g.show_power)
  /\ synced' = persist_write_bool(synced, SHOW_POWER, new_value)
  /\ last' = [op |-> "sync_show_power", new_value |-> new_value,
              charge_state |-> charge_state]
  /\ DigitsIdle
  /\ UNCHANGED month_first

\* sync_tuple_changed_callback, case SHOW_BTOOTH, with the reading of
\* bluetooth_connection_service_peek() passed as connected.  The flag is
\* written under the key SHOW_POWER.
sync_show_bluetooth(new_value, connected) ==
  /\ phase = "running"
  /\ LET g == handle_connection([IconMemory EXCEPT !.show_bluetooth = new_value],
                                connected)
     IN /\ PoolAllows(g)
        /\ CommitIcons(g)
        /\ persist' = persist_write_bool(persist, SHOW_POWER, g.show_bluetooth)
  /\ synced' = persist_write_bool(synced, SHOW_BTOOTH, new_value)
  /\ last' = [op |-> "sync_show_bluetooth", new_value |-> new_value,
              connected |-> connected]
  /\ DigitsIdle
  /\ UNCHANGED month_first

\* sync_tuple_changed_callback, case MONTH_FIRST.  Its update_date() rewrites
\* the date text only.
sync_month_first(new_value) ==
  /\ phase = "running"
  /\ month_first' = new_value
  /\ persist' = persist_write_bool(persist, MONTH_FIRST, new_value)
  /\ synced' = persist_write_bool(synced, MONTH_FIRST, new_value)
  /\ last' = [op |-> "sync_month_first", new_value |-> new_value]
  /\ CommitIcons(IconMemory)
  /\ DigitsIdle

\* static void app_destroy ()
app_destroy ==
  /\ phase = "running"
  /\ LET m0 == unload_digit_image_from_slot(Memory, 0)
         m1 == unload_digit_image_from_slot(m0, 1)
         m2 == unload_digit_image_from_slot(m1, 2)
         m3 == unload_digit_image_from_slot(m2, 3)
     IN Commit(m3, balance, "exited")
  /\ last' = Entry("app_destroy", 0, 0, FALSE, FALSE)
  /\ IconsIdle
  /\ UNCHANGED <<zero_prefix, persist, synced>>

\* ------------------------------------------------------------ specification

Init ==
  /\ image_slot_state = [s \in Slots |-> EMPTY_SLOT]
  /\ images = [s \in Slots |-> NULL]
  /\ heap = {}
  /\ zero_prefix = FALSE
  /\ persist = [k \in {} |-> FALSE]
  /\ phase = "off"
  /\ last = Entry("none", 0, 0, FALSE, FALSE)
  /\ calls = <<>>
  /\ nfail = 0
  /\ balance = 0
  /\ dfree = FALSE
  /\ passed = [loads |-> {}, unloads |-> {}]
  /\ show_power = TRUE
  /\ show_bluetooth = TRUE
  /\ month_first = TRUE
  /\ prev_power = -1
  /\ power_image = NULL
  /\ prev_bluetooth = FALSE
  /\ bluetooth_image = NULL
  /\ icon_heap = {}
  /\ icon_calls = <<>>
  /\ synced = [k \in {} |-> FALSE]

\* Entry-point inputs of Spec: the asset store never refuses.
Launch ==
  \E h \in SampleHours, mi \in SampleMinutes, s \in BOOLEAN :
    app_init(h, mi, s, NoFailure, LaunchCharge, LaunchConnected)

Tick ==
  \E h \in SampleHours, mi \in SampleMinutes, s \in BOOLEAN :
    handle_minute_tick(h, mi, s, NoFailure)

SyncZeroPrefix ==
  \E v \in SyncedValues, h \in SampleHours, mi \in SampleMinutes, s \in BOOLEAN :
    sync_zero_prefix(v, h, mi, s, NoFailure)

Exit == app_destroy

Next == Launch \/ Tick \/ SyncZeroPrefix \/ Exit

Spec == Init /\ [][Next]_vars

\* Entry-point inputs of SpecFail: the asset store may refuse an acquisition,
\* at most MaxFailures times in a run.
LaunchF ==
  \E h \in FewHours, mi \in FewMinutes, s \in BOOLEAN,
     outc \in FailPatterns(MaxFailures - nfail) :
    app_init(h, mi, s, outc, LaunchCharge, LaunchConnected)

TickF ==
  \E h \in FewHours, mi \in FewMinutes, s \in BOOLEAN,
     outc \in FailPatterns(MaxFailures - nfail) :
    handle_minute_tick(h, mi, s, outc)

SyncZeroPrefixF ==
  \E v \in SyncedValues, h \in FewHours, mi \in FewMinutes, s \in BOOLEAN,
     outc \in FailPatterns(MaxFailures - nfail) :
    sync_zero_prefix(v, h, mi, s, outc)

NextFail == LaunchF \/ TickF \/ SyncZeroPrefixF \/ Exit

SpecFail == Init /\ [][NextFail]_vars

\* SpecForced: forced renders over the whole day, and display_value over every
\* two-digit value, each taken from the states a history of few sampled times
\* reaches.  What such a step reaches is explored further only when its own
\* time is one of the few.
FewSampled ==
  /\ last.op \in {"app_init", "handle_minute_tick", "sync_zero_prefix"}
  /\ last.tm_hour \in FewHours
  /\ last.tm_min \in FewMinutes

LaunchAnyTime ==
  \E h \in Hours, mi \in Minutes, s \in BOOLEAN :
    app_init(h, mi, s, NoFailure, LaunchCharge, LaunchConnected)

RefreshAnyTime ==
  /\ FewSampled
  /\ \E v \in SyncedValues, h \in Hours, mi \in Minutes, s \in BOOLEAN :
       sync_zero_prefix(v, h, mi, s, NoFailure)

RowAnyValue ==
  /\ FewSampled
  /\ \E value \in 0 .. 99, row_number \in 0 .. 1, changed \in BOOLEAN :
       display_value_call(value, row_number, changed)

ExitFew == FewSampled /\ app_destroy

NextForced == LaunchAnyTime \/ RefreshAnyTime \/ RowAnyValue \/ ExitFew

SpecForced == Init /\ [][NextForced]_vars

\* SpecCache: the slot cache driven directly, operation by operation, from
\* the states a launch at one of the few sampled times leaves.
LaunchCache ==
  \E h \in FewHours, mi \in FewMinutes, s \in BOOLEAN :
    app_init(h, mi, s, NoFailure, LaunchCharge, LaunchConnected)

LoadAny ==
  \E slot_number \in CacheSlots, digit_value \in CacheDigits :
    load_digit_image_into_slot_call(slot_number, digit_value)

UnloadAny ==
  \E slot_number \in Slots : unload_digit_image_from_slot_call(slot_number)

ExitCache == app_destroy

NextCache == LaunchCache \/ LoadAny \/ UnloadAny \/ ExitCache

SpecCache == Init /\ [][NextCache]_vars

\* SpecDay: minute ticks and forced refreshes over the whole day, each taken
\* from the states that forced renders at the few sampled times reach.
ForcedFew ==
  /\ last.op \in {"app_init", "sync_zero_prefix"}
  /\ last.tm_hour \in FewHours
  /\ last.tm_min \in FewMinutes

LaunchDay ==
  \E h \in FewHours, mi \in FewMinutes, s \in BOOLEAN :
    app_init(h, mi, s, NoFailure, LaunchCharge, LaunchConnected)

TickDay ==
  /\ ForcedFew
  /\ \E h \in Hours, mi \in Minutes, s \in BOOLEAN :
       handle_minute_tick(h, mi, s, NoFailure)

RefreshDay ==
  /\ ForcedFew
  /\ \E v \in SyncedValues, h \in Hours, mi \in Minutes, s \in BOOLEAN :
       sync_zero_prefix(v, h, mi, s, NoFailure)

NextDay == LaunchDay \/ TickDay \/ RefreshDay

SpecDay == Init /\ [][NextDay]_vars

\* SpecIcons: the indicators and the four boolean settings, under battery
\* and connection events, settings callbacks and restarts.  The time is
\* midnight at every render.
LaunchIcons ==
  \E s \in BOOLEAN, charge_state \in ChargeStates, connected \in BOOLEAN :
    app_init(0, 0, s, NoFailure, charge_state, connected)

BatteryEvent ==
  \E charge_state \in ChargeStates : handle_power_level_event(charge_state)

ConnectionEvent ==
  \E connected \in BOOLEAN : handle_connection_event(connected)

SyncShowPower ==
  \E v \in SyncedValues, charge_state \in ChargeStates :
    sync_show_power(v, charge_state)

SyncShowBluetooth ==
  \E v \in SyncedValues, connected \in BOOLEAN :
    sync_show_bluetooth(v, connected)

SyncMonthFirst ==
  \E v \in SyncedValues : sync_month_first(v)

SyncZeroPrefixIcons ==
  \E v \in SyncedValues, s \in BOOLEAN :
    sync_zero_prefix(v, 0, 0, s, NoFailure)

ExitIcons == app_destroy

NextIcons ==
  \/ LaunchIcons
  \/ BatteryEvent
  \/ ConnectionEvent
  \/ SyncShowPower
  \/ SyncShowBluetooth
  \/ SyncMonthFirst
  \/ SyncZeroPrefixIcons
  \/ ExitIcons

SpecIcons == Init /\ [][NextIcons]_vars

\* ------------------------------------------------------------------ claims

Occupied == {s \in Slots : image_slot_state[s] # EMPTY_SLOT}
Rendered == last.op \in {"app_init", "handle_minute_tick", "sync_zero_prefix"}
CallsOn(slot) == SelectSeq(calls, LAMBDA c : c.slot = slot)
FailedSlots == {calls[i].slot : i \in {j \in DOMAIN calls : calls[j].op = "acquire_failed"}}

\* The 12-hour or 24-hour reading of an hour of the day.
ClockHour(hour, is_24h) == IF is_24h THEN hour ELSE ((hour + 11) % 12) + 1

\* What position slot of the display has to show for the time and settings of
\* entry e: a digit, or EMPTY_SLOT where the leading zero is suppressed.
Required(e, zp, slot) ==
  LET value == IF slot \div 2 = 0 THEN ClockHour(e.tm_hour, e.is_24h) ELSE e.tm_min
      digit == IF slot % 2 = 0 THEN (value \div 10) % 10 ELSE value % 10
  IN IF slot = 0 /\ digit = 0 /\ ~zp THEN EMPTY_SLOT ELSE digit

\* C1: between entry-point calls every slot records a digit if and only if it
\* holds a live asset handle: the handles alive in the store are exactly the
\* handles of the occupied slots, one handle each.
C1_SlotRecordsDigitIffHandleLive ==
  phase \in {"running", "exited"} =>
    /\ \A s \in Slots : image_slot_state[s] # EMPTY_SLOT => images[s] \in heap
    /\ heap = {images[s] : s \in Occupied}
    /\ Cardinality(heap) = Cardinality(Occupied)

\* C2: after app_destroy all four slots are empty, no handle is alive, the
\* release calls equal the successful acquires, and no handle was released
\* twice.
C2_TeardownReleasesEverything ==
  phase = "exited" =>
    /\ Occupied = {}
    /\ heap = {}
    /\ balance = 0
    /\ ~dfree

\* C3: when an acquisition fails during a render the program does not crash,
\* the target slot ends empty, no handle leaks, and every other slot ends
\* with the digit the call's time requires.
C3_FailedAcquireLeavesSlotEmpty ==
  (Rendered /\ FailedSlots # {}) =>
    /\ phase = "running"
    /\ \A s \in FailedSlots : image_slot_state[s] = EMPTY_SLOT
    /\ heap = {images[s] : s \in Occupied}
    /\ \A s \in Slots \ FailedSlots :
         image_slot_state[s] = Required(last, zero_prefix, s)

\* C4: after every render entry point returns, with every acquisition
\* successful, each slot shows the digit that the time and settings of that
\* call require for its position, and is blank only where the leading zero is
\* suppressed.
C4_SlotsShowLatestTime ==
  (Rendered /\ phase = "running" /\ nfail = 0) =>
    \A s \in Slots :
      /\ image_slot_state[s] = Required(last, zero_prefix, s)
      /\ image_slot_state[s] = EMPTY_SLOT =>
           (s = 0 /\ ~zero_prefix /\ ClockHour(last.tm_hour, last.is_24h) < 10)

\* C4 witness: an unforced tick has replaced a digit and kept another.
C4_Witness ==
  /\ last.op = "handle_minute_tick" /\ phase = "running" /\ nfail = 0
  /\ \E s \in Slots : CallsOn(s) # <<>>
  /\ \E s \in Occupied : CallsOn(s) = <<>>

\* C5: a forced display_time of hour h and minute m, from any prior slot
\* state, ends with slot 1 the ones digit of the display hour, slot 2 the tens
\* digit of m (a 0 included, whatever zero_prefix is), slot 3 the ones digit of
\* m, and slot 0 the tens digit of the display hour or empty; 14:05 on a
\* 12-hour clock without zero_prefix gives [empty, 2, 0, 5].
C5_ForcedDisplayTimeDigits ==
  (last.op \in {"app_init", "sync_zero_prefix"} /\ phase = "running") =>
    LET dh == get_display_hour(last.tm_hour, last.is_24h)
    IN /\ image_slot_state[1] = dh % 10
       /\ image_slot_state[2] = (last.tm_min \div 10) % 10
       /\ image_slot_state[3] = last.tm_min % 10
       /\ image_slot_state[0] \in {EMPTY_SLOT, (dh \div 10) % 10}
       /\ (last.tm_hour = 14 /\ last.tm_min = 5 /\ ~last.is_24h /\ ~zero_prefix) =>
            image_slot_state = (0 :> EMPTY_SLOT @@ 1 :> 2 @@ 2 :> 0 @@ 3 :> 5)

\* C5 witness: the settings callback has re-rendered 14:05 over four occupied
\* slots, that is over a prior state showing a two-digit hour.
C5_Witness ==
  /\ last.op = "sync_zero_prefix" /\ phase = "running"
  /\ last.tm_hour = 14 /\ last.tm_min = 5 /\ ~last.is_24h /\ ~zero_prefix
  /\ Count(calls, "release") = 4
  /\ image_slot_state = (0 :> EMPTY_SLOT @@ 1 :> 2 @@ 2 :> 0 @@ 3 :> 5)

\* C6: a forced display_value of v in 0..99 into row 0 leaves slot 1 showing
\* v % 10, and slot 0 empty exactly when the tens digit of v is 0 and
\* zero_prefix is off; otherwise slot 0 shows the tens digit.
C6_ForcedRowZero ==
  (last.op = "display_value" /\ last.row_number = 0 /\ last.changed) =>
    LET tens == (last.value \div 10) % 10
    IN /\ image_slot_state[1] = last.value % 10
       /\ (image_slot_state[0] = EMPTY_SLOT) <=> (tens = 0 /\ ~zero_prefix)
       /\ image_slot_state[0] # EMPTY_SLOT => image_slot_state[0] = tens

\* C6 witness: 7 rendered with zero_prefix on shows 0 and 7.
C6_Witness ==
  /\ last.op = "display_value" /\ last.row_number = 0 /\ last.changed
  /\ last.value = 7 /\ zero_prefix
  /\ image_slot_state[0] = 0 /\ image_slot_state[1] = 7

\* The hour the first row shows, a blank tens digit read as 0.
ShownHour ==
  10 * (IF image_slot_state[0] = EMPTY_SLOT THEN 0 ELSE image_slot_state[0])
    + image_slot_state[1]

\* C7: get_display_hour is total over the hours 0..23: on a 12-hour clock the
\* result is in 1..12 (0 and 12 give 12, 13 gives 1, in general hour % 12 with
\* 0 replaced by 12), on a 24-hour clock it is the hour itself; the hour row
\* shows that result after every render.
C7_DisplayHourPolicy ==
  /\ \A hour \in Hours :
       /\ get_display_hour(hour, TRUE) = hour
       /\ get_display_hour(hour, FALSE) \in 1 .. 12
       /\ get_display_hour(hour, FALSE) % 12 = hour % 12
  /\ get_display_hour(0, FALSE) = 12
  /\ get_display_hour(12, FALSE) = 12
  /\ get_display_hour(13, FALSE) = 1
  /\ (Rendered /\ phase = "running") =>
       ShownHour = ClockHour(last.tm_hour, last.is_24h)

\* C7 witness: 13 o'clock rendered on a 12-hour clock shows hour 1.
C7_Witness ==
  /\ Rendered /\ phase = "running"
  /\ last.tm_hour = 13 /\ ~last.is_24h
  /\ ShownHour = 1

\* The operations of the asset-store calls that log makes on slot.
OpsOn(log, slot) ==
  LET on == SelectSeq(log, LAMBDA c : c.slot = slot)
  IN [i \in DOMAIN on |-> on[i].op]

\* The digit that entry e asks position slot to show, before any suppression.
RequestedDigit(e, slot) ==
  LET value == IF slot \div 2 = 0 THEN ClockHour(e.tm_hour, e.is_24h) ELSE e.tm_min
  IN IF slot % 2 = 0 THEN (value \div 10) % 10 ELSE value % 10

\* A step of a display_time entry point.
RenderStep ==
  /\ last'.op \in {"app_init", "handle_minute_tick", "sync_zero_prefix"}
  /\ phase' = "running"

\* C8: displaying the same digit in the same slot twice in a row without
\* forced refresh costs one acquire in total: the second, unforced request
\* finds the slot holding the digit and makes no acquire and no release; the
\* slot keeps the handle it had, still alive.
C8_RepeatedDigitIsNoOp ==
  [][ (RenderStep /\ ~last'.changed) =>
        \A s \in Slots :
          image_slot_state[s] = RequestedDigit(last', s) =>
            /\ OpsOn(calls', s) = <<>>
            /\ image_slot_state'[s] = image_slot_state[s]
            /\ images'[s] = images[s]
            /\ images'[s] \in heap' ]_vars

\* C8 witness: after an unforced tick a slot shows its digit with no call made
\* on it, while the tick changed another slot.
C8_Witness ==
  /\ last.op = "handle_minute_tick" /\ phase = "running"
  /\ \E s \in Occupied :
       /\ OpsOn(calls, s) = <<>>
       /\ image_slot_state[s] = RequestedDigit(last, s)
  /\ Count(calls, "acquire") > 0

\* The asset-store operations one column update makes: a release when the
\* slot was occupied, then an acquire when the digit is displayed.
ClearThenDisplay(occupied, displayed) ==
  (IF occupied THEN <<"release">> ELSE <<>>) \o
  (IF displayed THEN <<"acquire">> ELSE <<>>)

\* C9 as claimed, read on the slots that show a digit when the render
\* starts: the render mutates such a slot if and only if it is forced or the
\* slot's digit differs from the new digit, and every slot it mutates is
\* updated by one clear followed by one display of the new digit.
C9_EveryUpdateIsClearThenDisplay ==
  [][ RenderStep =>
        \A s \in Slots :
          LET d == RequestedDigit(last', s)
              update == last'.changed \/ image_slot_state[s] # d
          IN (phase = "running" /\ image_slot_state[s] # EMPTY_SLOT) =>
               /\ (OpsOn(calls', s) # <<>>) <=> update
               /\ update =>
                    /\ OpsOn(calls', s) = ClearThenDisplay(TRUE, TRUE)
                    /\ image_slot_state'[s] = d ]_vars

\* C9 as amended: an unforced render makes no release and no acquire on a
\* slot already showing the new digit; a forced render, or a differing digit,
\* updates the slot by one clear (a release when the slot was occupied)
\* followed by one display (an acquire) of the new digit, except that slot 0
\* is only cleared when its new digit is 0 and zero_prefix is off.
C9_UpdateIsClearThenDisplayUnlessSuppressed ==
  [][ RenderStep =>
        \A s \in Slots :
          LET d == RequestedDigit(last', s)
              update == last'.changed \/ image_slot_state[s] # d
              displayed == ~(s = 0 /\ d = 0 /\ ~zero_prefix')
          IN /\ ~update =>
                  /\ OpsOn(calls', s) = <<>>
                  /\ image_slot_state'[s] = image_slot_state[s]
                  /\ images'[s] = images[s]
             /\ update =>
                  /\ OpsOn(calls', s) =
                       ClearThenDisplay(image_slot_state[s] # EMPTY_SLOT, displayed)
                  /\ image_slot_state'[s] = IF displayed THEN d ELSE EMPTY_SLOT ]_vars

\* C9 witness: an unforced tick to minute 59 has updated slots 2 and 3 to 5
\* and 9 by a release and an acquire each.
C9_Witness ==
  /\ last.op = "handle_minute_tick" /\ phase = "running" /\ last.tm_min = 59
  /\ OpsOn(calls, 2) = <<"release", "acquire">>
  /\ OpsOn(calls, 3) = <<"release", "acquire">>
  /\ image_slot_state[2] = 5 /\ image_slot_state[3] = 9

\* C10: displaying a digit in a slot occupied by a different digit releases
\* the handle the slot holds, and only then acquires the asset of the new
\* digit and installs it: the slot ends holding the new digit with the new
\* handle alive, and the release of the old handle comes before the acquire
\* on every path, a forced refresh and a refused acquisition included.
C10_ReleaseBeforeAcquire ==
  [][ (last'.op \in {"app_init", "handle_minute_tick", "sync_zero_prefix"}) =>
        \A s \in Slots :
          LET d == RequestedDigit(last', s)
              on == SelectSeq(calls', LAMBDA c : c.slot = s)
          IN (/\ phase = "running"
              /\ image_slot_state[s] \notin {EMPTY_SLOT, d}
              /\ images[s] \in heap
              /\ ~(s = 0 /\ d = 0 /\ ~zero_prefix')) =>
               /\ phase' = "running" => on # <<>>
               /\ on # <<>> =>
                    /\ on[1] = Call("release", s, images[s])
                    /\ Len(on) = 2
                    /\ on[2].op \in {"acquire", "acquire_failed"}
                    /\ on[2].op = "acquire" =>
                         /\ image_slot_state'[s] = d
                         /\ images'[s] = on[2].handle
                         /\ images'[s] \in heap'
                    /\ nfail' = nfail => on[2].op = "acquire" ]_vars

\* C10 witness: an unforced tick has replaced the digit of slot 3, releasing
\* one handle and then acquiring another for it.
C10_Witness ==
  /\ last.op = "handle_minute_tick" /\ phase = "running"
  /\ OpsOn(calls, 3) = <<"release", "acquire">>
  /\ image_slot_state[3] = RequestedDigit(last, 3)
  /\ images[3] \in heap

\* C11: clear is idempotent: on an empty slot unload_digit_image_from_slot
\* makes no release and changes nothing; on an occupied slot it releases the
\* handle the slot holds, once, and marks the slot empty; a clear that follows
\* a clear of the same slot releases nothing.
C11_ClearIsIdempotent ==
  [][ (last'.op = "unload_digit_image_from_slot") =>
        LET s == last'.slot_number
        IN /\ image_slot_state[s] = EMPTY_SLOT =>
                /\ calls' = <<>>
                /\ UNCHANGED <<image_slot_state, images, heap, balance>>
           /\ image_slot_state[s] # EMPTY_SLOT =>
                /\ calls' = <<Call("release", s, images[s])>>
                /\ image_slot_state' = [image_slot_state EXCEPT ![s] = EMPTY_SLOT]
                /\ heap' = heap \ {images[s]}
                /\ Cardinality(heap') = Cardinality(heap) - 1
                /\ balance' = balance - 1
           /\ (last.op = "unload_digit_image_from_slot" /\ last.slot_number = s) =>
                /\ calls' = <<>>
                /\ Len(calls) + Len(calls') <= 1 ]_vars

\* C11 witness: a clear has released the handle of an occupied slot and left
\* the slot empty.
C11_Witness ==
  /\ last.op = "unload_digit_image_from_slot"
  /\ calls = <<Call("release", last.slot_number, images[last.slot_number])>>
  /\ images[last.slot_number] \in Handles \ heap
  /\ image_slot_state[last.slot_number] = EMPTY_SLOT

\* C12: load_digit_image_into_slot given a position outside 0..3 fails with
\* InvalidPosition, and given a digit outside 0..9 fails with InvalidDigit; in
\* both cases it acquires and releases nothing and leaves every slot as it was.
C12_InvalidArgumentsAreSignalled ==
  [][ (last'.op = "load_digit_image_into_slot") =>
        LET p == last'.slot_number
            d == last'.digit_value
        IN /\ p \notin Slots => last'.signalled = "InvalidPosition"
           /\ (p \in Slots /\ d \notin Digits) => last'.signalled = "InvalidDigit"
           /\ (p \notin Slots \/ d \notin Digits) =>
                /\ calls' = <<>>
                /\ UNCHANGED <<image_slot_state, images, heap>> ]_vars

\* The slots' holdings and the live handles at each instant of a handler: its
\* asset-store calls log replayed from live handles live and holdings held
\* (a handle, NULL, or EMPTY_SLOT for an empty slot), one snapshot before the
\* first call and one after each call.  A refused acquisition leaves the slot
\* recorded as occupied by NULL, unless the process faulted on it.
RECURSIVE Snapshots(_, _, _, _)
Snapshots(live, held, log, faulted) ==
  IF log = <<>> THEN << [live |-> live, held |-> held] >>
  ELSE LET c == Head(log)
           live1 == CASE c.op = "acquire" -> live \cup {c.handle}
                      [] c.op = "release" -> live \ {c.handle}
                      [] OTHER -> live
           held1 == CASE c.op = "acquire" -> [held EXCEPT ![c.slot] = c.handle]
                      [] c.op = "release" -> [held EXCEPT ![c.slot] = EMPTY_SLOT]
                      [] OTHER -> IF faulted THEN held
                                  ELSE [held EXCEPT ![c.slot] = NULL]
       IN << [live |-> live, held |-> held] >>
            \o Snapshots(live1, held1, Tail(log), faulted)

\* What the slots hold in a state: the handle of an occupied slot.
Held(state, imgs) ==
  [s \in Slots |-> IF state[s] = EMPTY_SLOT THEN EMPTY_SLOT ELSE imgs[s]]

\* C13: at every instant, in the middle of a render call included, the live
\* digit handles are exactly the handles held by the occupied slots, one
\* handle per occupied slot and no handle in two slots, so at most
\* TOTAL_IMAGE_SLOTS digit assets are loaded at a time.
C13_LiveHandlesAreSlotHandles ==
  [][ LET fresh == last'.op = "app_init"
          snaps == Snapshots(IF fresh THEN {} ELSE heap,
                             IF fresh THEN [s \in Slots |-> EMPTY_SLOT]
                                      ELSE Held(image_slot_state, images),
                             calls', phase' = "faulted")
      IN /\ \A k \in DOMAIN snaps :
              LET occupied == {s \in Slots : snaps[k].held[s] # EMPTY_SLOT}
              IN /\ snaps[k].live = {snaps[k].held[s] : s \in occupied}
                 /\ Cardinality(snaps[k].live) = Cardinality(occupied)
                 /\ Cardinality(snaps[k].live) <= TOTAL_IMAGE_SLOTS
         /\ snaps[Len(snaps)].live = heap'
         /\ snaps[Len(snaps)].held = Held(image_slot_state', images') ]_vars

\* C14: for every minute tick and every forced refresh, at any hour 0..23 and
\* minute 0..59 in either clock mode, every slot index that display_time
\* passes to the load and unload operations is in 0..3 and every digit it
\* passes is in 0..9: the renderer never gives the cache an invalid position
\* or an invalid digit.
C14_RendererPassesValidArguments ==
  Rendered =>
    /\ \A a \in passed.loads : a[1] \in Slots /\ a[2] \in Digits
    /\ passed.unloads \subseteq Slots
    /\ {a[1] : a \in passed.loads} \subseteq passed.unloads

\* C14 witness: a tick to 23:59 on a 24-hour clock has passed every slot to
\* unload and the digits 2, 3, 5, 9 to load.
C14_Witness ==
  /\ last.op = "handle_minute_tick" /\ phase = "running"
  /\ last.tm_hour = 23 /\ last.tm_min = 59 /\ last.is_24h
  /\ passed.unloads = Slots
  /\ passed.loads = {<<0, 2>>, <<1, 3>>, <<2, 5>>, <<3, 9>>}

\* C15: rendering a value into row r, forced or not, touches only slots 2r
\* and 2r + 1: neither slot of the other row is passed to the cache, and each
\* keeps its digit and its handle with no acquire and no release made on it.
C15_RowRenderTouchesOwnSlots ==
  [][ (last'.op = "display_value") =>
        LET r == last'.row_number
            own == {2 * r, (2 * r) + 1}
        IN /\ passed'.unloads \subseteq own
           /\ {a[1] : a \in passed'.loads} \subseteq own
           /\ \A s \in Slots \ own :
                /\ image_slot_state'[s] = image_slot_state[s]
                /\ images'[s] = images[s]
                /\ OpsOn(calls', s) = <<>>
                /\ (images[s] \in heap) = (images'[s] \in heap') ]_vars

\* C15 witness: a render of row 1 has replaced both its digits while row 0
\* shows a two-digit hour with no call made on its slots.
C15_Witness ==
  /\ last.op = "display_value" /\ last.row_number = 1
  /\ OpsOn(calls, 2) = <<"release", "acquire">>
  /\ OpsOn(calls, 3) = <<"release", "acquire">>
  /\ OpsOn(calls, 0) = <<>> /\ OpsOn(calls, 1) = <<>>
  /\ image_slot_state[0] # EMPTY_SLOT /\ image_slot_state[1] # EMPTY_SLOT
  /\ images[0] \in heap /\ images[1] \in heap

\* C16: when the 12/24-hour clock mode has changed since the previous tick,
\* the next minute tick, an unforced render, brings the hour row to the
\* display hour of the new mode: slots 0 and 1 show get_display_hour of the
\* tick's hour under the new mode (slot 0 blank for a suppressed leading
\* zero), and neither keeps a digit of the old mode's hour.
C16_TickFollowsClockMode ==
  [][ (/\ last.op = "handle_minute_tick" /\ phase = "running"
       /\ last'.op = "handle_minute_tick" /\ phase' = "running"
       /\ last'.is_24h # last.is_24h) =>
        LET dh == get_display_hour(last'.tm_hour, last'.is_24h)
            tens == (dh \div 10) % 10
        IN /\ image_slot_state'[1] = dh % 10
           /\ image_slot_state'[0] =
                IF tens = 0 /\ ~zero_prefix' THEN EMPTY_SLOT ELSE tens
           /\ dh = ClockHour(last'.tm_hour, last'.is_24h) ]_vars

\* C16 witness: a tick at 14 o'clock on a 12-hour clock, the minute
\* unchanged, has blanked slot 0 and put 2 in slot 1: the hour row showed a
\* two-digit hour before, as 14 does on a 24-hour clock.
C16_Witness ==
  /\ last.op = "handle_minute_tick" /\ phase = "running"
  /\ last.tm_hour = 14 /\ ~last.is_24h /\ ~zero_prefix
  /\ OpsOn(calls, 0) = <<"release">>
  /\ OpsOn(calls, 1) = <<"release", "acquire">>
  /\ OpsOn(calls, 2) = <<>> /\ OpsOn(calls, 3) = <<>>
  /\ image_slot_state[0] = EMPTY_SLOT /\ image_slot_state[1] = 2

\* C17: a change of zero_prefix takes effect in the callback that makes it:
\* when the ZERO_PREFIX callback returns, zero_prefix is the synced value and
\* slot 0 is empty exactly when the tens digit of the display hour is 0 and
\* zero_prefix is false, and otherwise shows that tens digit; and between
\* calls slot 0 never shows digit 0 while zero_prefix is false.
C17_ZeroPrefixTakesEffectAtOnce ==
  /\ (last.op = "sync_zero_prefix" /\ phase = "running") =>
       LET tens == (get_display_hour(last.tm_hour, last.is_24h) \div 10) % 10
       IN /\ zero_prefix = persist_read_bool(persist, ZERO_PREFIX)
          /\ (image_slot_state[0] = EMPTY_SLOT) <=> (tens = 0 /\ ~zero_prefix)
          /\ image_slot_state[0] # EMPTY_SLOT => image_slot_state[0] = tens
  /\ (phase = "running" /\ ~zero_prefix) => image_slot_state[0] # 0

\* C17 witness: the callback has turned zero_prefix off at a one-digit hour
\* and released the leading 0 that slot 0 was showing.
C17_Witness ==
  /\ last.op = "sync_zero_prefix" /\ phase = "running"
  /\ ~zero_prefix
  /\ RequestedDigit(last, 0) = 0
  /\ OpsOn(calls, 0) = <<"release">>
  /\ image_slot_state[0] = EMPTY_SLOT

\* The indicator bitmaps of one kind that are alive.
LiveIcons(kind) == {p \in icon_heap : p[1] = kind}

\* C18: after any sequence of battery events and show_power changes at most
\* one power-indicator bitmap is alive, the one power_image points to: a
\* bitmap loaded for one power level is destroyed by the time a bitmap for
\* another level is loaded, and none is alive while the indicator is hidden.
C18_AtMostOnePowerBitmap ==
  phase = "running" =>
    /\ Cardinality(LiveIcons("power")) <= 1
    /\ LiveIcons("power") \subseteq {<<"power", power_image>>}
    /\ ~show_power => LiveIcons("power") = {}

\* C19: after every handle_connection call, from a connection event, a
\* SHOW_BTOOTH callback or app_init, the bluetooth icon is loaded if and only
\* if show_bluetooth is true and the device is connected, prev_bluetooth is
\* true exactly when the icon is loaded, the icon is created only when absent
\* and destroyed only when present, and no other bluetooth bitmap is alive.
C19_BluetoothIconFollowsConnection ==
  [][ (/\ last'.op \in {"app_init", "handle_connection", "sync_show_bluetooth"}
       /\ phase' = "running") =>
        LET before == IF last'.op = "app_init" THEN NULL ELSE bluetooth_image
            on == SelectSeq(icon_calls', LAMBDA c : c.icon = "bluetooth")
        IN /\ (bluetooth_image' # NULL) <=> (show_bluetooth' /\ last'.connected)
           /\ prev_bluetooth' <=> (bluetooth_image' # NULL)
           /\ {p \in icon_heap' : p[1] = "bluetooth"} =
                IF bluetooth_image' = NULL THEN {}
                ELSE {<<"bluetooth", bluetooth_image'>>}
           /\ Len(on) <= 1
           /\ (Len(on) = 1 /\ on[1].op = "acquire") =>
                /\ before = NULL
                /\ on[1].handle = bluetooth_image'
           /\ (Len(on) = 1 /\ on[1].op = "release") =>
                /\ before # NULL
                /\ on[1].handle = before
                /\ <<"bluetooth", before>> \in icon_heap
           /\ (Len(on) = 0) => bluetooth_image' = before ]_vars

\* C19 witness: the SHOW_BTOOTH callback has turned the icon back on while
\* the device is connected: the icon was absent and has been created.
C19_Witness ==
  /\ last.op = "sync_show_bluetooth" /\ phase = "running"
  /\ last.new_value /\ last.connected
  /\ show_bluetooth /\ prev_bluetooth
  /\ icon_calls = <<IconCall("acquire", "bluetooth", bluetooth_image)>>
  /\ <<"bluetooth", bluetooth_image>> \in icon_heap

\* A setting as read back from the values synced so far.
ReadBack(key, default) ==
  IF key \in DOMAIN synced THEN synced[key] ELSE default

\* C20: the settings round-trip through persistent storage, each under its
\* own key: the persisted value of every key is the value last synced for
\* that setting (no value if it was never synced), so a callback for one
\* setting leaves the others' persisted values alone, and app_init reads back
\* into zero_prefix, show_power, show_bluetooth and month_first the value last
\* synced for each, or its default.
C20_SettingsRoundTrip ==
  /\ persist = synced
  /\ (last.op = "app_init" /\ phase = "running") =>
       /\ zero_prefix = ReadBack(ZERO_PREFIX, FALSE)
       /\ show_power = ReadBack(SHOW_POWER, TRUE)
       /\ show_bluetooth = ReadBack(SHOW_BTOOTH, TRUE)
       /\ month_first = ReadBack(MONTH_FIRST, TRUE)

====
